---- MODULE Spec2Model ----
(***************************************************************************)
(* State-store model of src/database.py (SQLite persistence layer of the   *)
(* bot factory).  Every table is a set of rows (records); every repository *)
(* function is one action built from operators that model its SQL          *)
(* statements.  Timestamps (datetime.now().isoformat(), compared as text   *)
(* by SQLite) are modelled as naturals with the same order.                *)
(***************************************************************************)
EXTENDS Integers, Sequences, FiniteSets, TLC

(* ------------------------------ bounds -------------------------------- *)
\* largest timestamp the clock reaches in SpecMembers
MaxTime == 2
\* rows add_memory may append in SpecCascade
MaxMemIds == 2
\* rows add_memory may append after the initial contents in SpecMemory
MaxAppends == 3
\* leading rows of the initial contents of SpecMemory that may share one instant
MaxTie == 2
\* largest bots_created reached in SpecMembers
MaxIncrements == 3
\* concurrent callers in the statement-level specifications
NumProcs == 2
\* largest kick_count reached in SpecGuardSteps; increment_guard_kick calls per key
\* in SpecGuardKicks
MaxKicks == 3
\* set_guard_kick_limit calls per (bot_token, chat_id) between two clear_all_data
MaxSets == 2

(* -------------------------- program constants ------------------------- *)
\* LIMIT of the prune sub-select in add_memory
MEMORY_LIMIT == 20
\* kick_limit of the dict get_guard_settings returns when the chat has no row
DEFAULT_KICK_LIMIT == 5

(* --------------------------- input domains ---------------------------- *)
NULL == "NULL"
Tokens == {"tokA", "tokB"}
UserIds == {0, 1}
FirstNames == {"Ann", "Bob"}
Usernames == {NULL, "ann"}
BotUsernames == {"abot", "bbot"}
BotTypes == {"ai", "guard"}
Channels == {NULL, "@chan"}
Roles == {"user", "assistant"}
Contents == {"hi", "yo"}
ChatIds == {10, 20}
KickLimits == {3, 7}
Procs == 1 .. NumProcs

VARIABLES
    members,          \* table members
    bots,             \* table bots
    bot_users,        \* table bot_users
    fake_subs,        \* table fake_subs
    remember,         \* table remember
    guard_data,       \* table guard_data
    sqlite_sequence,  \* AUTOINCREMENT high-water mark of table remember
    clock,            \* last value datetime.now() returned
    ret,              \* the last completed sequential call and what it returned
    incs,             \* history: increment_bots_created calls that hit a row, per user
    mem_log,          \* history: <<id, created_at>> of every add_memory, per partition
    proc,             \* concurrent callers: where each is in its call, and its locals
    kick_log,         \* history: what the completed increment_guard_kick calls
                      \* returned, per key, in order of return, since the store was
                      \* last cleared
    limit_log,        \* history: the limits set_guard_kick_limit wrote, per
                      \* (bot_token, chat_id), since the store was last cleared
    guard_settings,   \* table guard_settings
    developers,       \* table developers
    banned_makers,    \* table banned_makers
    adhkar_schedules, \* table adhkar_schedules
    schema,           \* the names of the tables that exist in the store
    fetched,          \* the list the last get_memory returned
    escaped,          \* the functions an exception has left so far, into their caller
    open_conns        \* the functions that have ended without conn.close() so far

tables == <<members, bots, bot_users, fake_subs, remember, guard_data, sqlite_sequence>>
vars == <<members, bots, bot_users, fake_subs, remember, guard_data, sqlite_sequence,
          clock, ret, incs, mem_log, proc, kick_log, limit_log, guard_settings, developers,
          banned_makers, adhkar_schedules, schema, fetched, escaped, open_conns>>
hist == <<incs, mem_log, limit_log>>
callers == <<proc, kick_log>>
tables2 == <<guard_settings, developers, banned_makers, adhkar_schedules, schema>>
io == <<fetched, escaped, open_conns>>

\* the last call and what it returned: its token and user arguments (owner_id for
\* add_bot, admin_id for the guard_data functions), its boolean or integer result;
\* unused fields keep their defaults
Ret(op, tok, uid, ok, n) ==
    [op |-> op, token |-> tok, user_id |-> uid, ok |-> ok, n |-> n, chat_id |-> 0]

\* the same for the functions that take a chat_id
RetChat(op, tok, chat, uid, n) == [Ret(op, tok, uid, FALSE, n) EXCEPT !.chat_id = chat]

\* the statements of a call at which the store may fail: execute() or commit()
Faults == {"execute", "commit"}

\* datetime.now(): the clock never runs backwards here and may return the same
\* instant twice
Now(max) == {t \in {clock, clock + 1} : t >= 1 /\ t <= max}

(* ============================== BOTS ================================== *)
\* mutant: the bots table declared without UNIQUE on token
NoUniqueToken(bs, token) == FALSE

\* token TEXT UNIQUE NOT NULL: an INSERT of a token that is in the table fails
UniqueTokenConflict(bs, token) == \E b \in bs : b.token = token

\* INSERT INTO bots (...): active and users_count take their defaults.  The
\* surrogate id columns of bots and bot_users are read by no statement of the
\* module and are left out of the rows.
InsertBot(bs, token, bot_username, bot_type, owner_id, now, required_channel) ==
    bs \cup {[token |-> token, bot_username |-> bot_username,
              bot_type |-> bot_type, owner_id |-> owner_id, created_at |-> now,
              active |-> 1, required_channel |-> required_channel, users_count |-> 0]}

\* UPDATE bots SET users_count = ? WHERE token = ?
SetUsersCount(bs, token, count) ==
    {IF b.token = token THEN [b EXCEPT !.users_count = count] ELSE b : b \in bs}

add_bot(token, bot_username, bot_type, owner_id, required_channel, now) ==
    /\ clock' = now
    /\ IF UniqueTokenConflict(bots, token)
       THEN \* sqlite3.IntegrityError: return False
            /\ ret' = Ret("add_bot", token, owner_id, FALSE, 0)
            /\ UNCHANGED callers
            /\ UNCHANGED <<tables2, io>>
            /\ UNCHANGED tables
       ELSE /\ bots' = InsertBot(bots, token, bot_username, bot_type, owner_id, now,
                                 required_channel)
            /\ ret' = Ret("add_bot", token, owner_id, TRUE, 0)
            /\ UNCHANGED callers
            /\ UNCHANGED <<tables2, io>>
            /\ UNCHANGED <<members, bot_users, fake_subs, remember, guard_data,
                           sqlite_sequence>>
    /\ UNCHANGED hist

\* mutant: UPDATE bots SET active = 0 WHERE token = ?
DeactivateBot(bs, token) ==
    {IF b.token = token THEN [b EXCEPT !.active = 0] ELSE b : b \in bs}

\* UPDATE bots SET active = NOT active WHERE token = ?: NOT of 0 is 1, NOT of any
\* other integer is 0
ToggleActive(bs, token) ==
    {IF b.token = token THEN [b EXCEPT !.active = IF @ = 0 THEN 1 ELSE 0] ELSE b :
        b \in bs}

\* returns cursor.rowcount > 0: whether the UPDATE matched a row
toggle_bot_active(token) ==
    /\ bots' = ToggleActive(bots, token)
    /\ ret' = Ret("toggle_bot_active", token, 0, \E b \in bots : b.token = token, 0)
    /\ UNCHANGED <<members, bot_users, fake_subs, remember, guard_data, sqlite_sequence,
                   tables2, io, clock, hist, callers>>

\* add_bot when the store fails in it.  get_connection() is called before the try:
\* a failure to open the store leaves add_bot as an exception, with no connection
\* to close.  A failure of the INSERT or of the commit is caught (except Exception),
\* False is returned, and finally closes the connection, which rolls back.
add_bot_fails(token, owner_id, at) ==
    /\ IF at = "connect"
       THEN /\ escaped' = escaped \cup {"add_bot"}
            /\ ret' = Ret("raise", token, owner_id, FALSE, 0)
       ELSE /\ escaped' = escaped
            /\ ret' = Ret("add_bot", token, owner_id, FALSE, 0)
    /\ UNCHANGED <<tables, tables2, clock, hist, callers, fetched, open_conns>>

\* the four DELETE statements of delete_bot, committed together
DeleteBotRows(bs, token) == {b \in bs : b.token # token}
\* mutant: DELETE FROM bot_users, without its WHERE
DeleteEveryBotUser(bu, token) == {}
DeleteBotUsers(bu, token) == {r \in bu : r.bot_token # token}
DeleteFakeSubs(fs, token) == {r \in fs : r.bot_token # token}
\* mutant: delete_bot without its DELETE FROM remember
KeepRemember(rm, token) == rm
DeleteRemember(rm, token) == {r \in rm : r.bot_token # token}

delete_bot(token) ==
    /\ bots' = DeleteBotRows(bots, token)
    /\ bot_users' = DeleteBotUsers(bot_users, token)
    /\ fake_subs' = DeleteFakeSubs(fake_subs, token)
    /\ remember' = DeleteRemember(remember, token)
    /\ ret' = Ret("delete_bot", token, 0, FALSE, 0)
    /\ UNCHANGED callers
    /\ UNCHANGED <<tables2, io>>
    /\ mem_log' = [p \in DOMAIN mem_log |-> IF p[1] = token THEN <<>> ELSE mem_log[p]]
    /\ UNCHANGED <<members, guard_data, sqlite_sequence, clock, incs, limit_log>>

\* delete_bot when one of its statements fails: there is no try, the exception
\* leaves the function and conn.close() on its last line is never reached; nothing
\* was committed
delete_bot_fails(token, at) ==
    /\ at \in Faults
    /\ escaped' = escaped \cup {"delete_bot"}
    /\ open_conns' = open_conns \cup {"delete_bot"}
    /\ ret' = Ret("raise", token, 0, FALSE, 0)
    /\ UNCHANGED <<tables, tables2, clock, hist, callers, fetched>>

(* ============================ BOT USERS =============================== *)
BotUserOf(bu, bot_token, user_id) ==
    {r \in bu : r.bot_token = bot_token /\ r.user_id = user_id}

\* mutant: INSERT OR REPLACE INTO bot_users (...), which rewrites the row of the
\* pair with the new values and the default banned = 0
InsertOrReplaceBotUser(bu, bot_token, user_id, first_name, username, now) ==
    {r \in bu : ~(r.bot_token = bot_token /\ r.user_id = user_id)}
      \cup {[bot_token |-> bot_token, user_id |-> user_id,
             first_name |-> first_name, username |-> username,
             joined_at |-> now, banned |-> 0]}

\* INSERT OR IGNORE INTO bot_users (...): UNIQUE(bot_token, user_id)
InsertOrIgnoreBotUser(bu, bot_token, user_id, first_name, username, now) ==
    IF BotUserOf(bu, bot_token, user_id) # {}
    THEN bu
    ELSE bu \cup {[bot_token |-> bot_token, user_id |-> user_id,
                   first_name |-> first_name, username |-> username,
                   joined_at |-> now, banned |-> 0]}

\* mutant: the recount without its banned = 0 condition
CountAll(bu, bot_token) == Cardinality({r \in bu : r.bot_token = bot_token})

\* SELECT COUNT(*) FROM bot_users WHERE bot_token = ? AND banned = 0
CountActive(bu, bot_token) ==
    Cardinality({r \in bu : r.bot_token = bot_token /\ r.banned = 0})

\* mutant: the UPDATE without its user_id condition
SetBannedOfBot(bu, bot_token, user_id, flag) ==
    {IF r.bot_token = bot_token THEN [r EXCEPT !.banned = flag] ELSE r : r \in bu}

\* UPDATE bot_users SET banned = ? WHERE bot_token = ? AND user_id = ?
SetBanned(bu, bot_token, user_id, flag) ==
    {IF r.bot_token = bot_token /\ r.user_id = user_id
     THEN [r EXCEPT !.banned = flag] ELSE r : r \in bu}

add_bot_user(bot_token, user_id, first_name, username, now) ==
    LET inserted == InsertOrIgnoreBotUser(bot_users, bot_token, user_id, first_name,
                                          username, now)
        count == CountActive(inserted, bot_token)
    IN  /\ clock' = now
        /\ bot_users' = inserted
        /\ bots' = SetUsersCount(bots, bot_token, count)
        /\ ret' = Ret("add_bot_user", bot_token, user_id, FALSE, 0)
        /\ UNCHANGED callers
        /\ UNCHANGED <<tables2, io>>
        /\ UNCHANGED <<members, fake_subs, remember, guard_data, sqlite_sequence, hist>>

ban_bot_user(bot_token, user_id) ==
    /\ bot_users' = SetBanned(bot_users, bot_token, user_id, 1)
    /\ ret' = Ret("ban_bot_user", bot_token, user_id, FALSE, 0)
    /\ UNCHANGED callers
    /\ UNCHANGED <<tables2, io>>
    /\ UNCHANGED <<members, bots, fake_subs, remember, guard_data, sqlite_sequence,
                   clock, hist>>

unban_bot_user(bot_token, user_id) ==
    /\ bot_users' = SetBanned(bot_users, bot_token, user_id, 0)
    /\ ret' = Ret("unban_bot_user", bot_token, user_id, FALSE, 0)
    /\ UNCHANGED callers
    /\ UNCHANGED <<tables2, io>>
    /\ UNCHANGED <<members, bots, fake_subs, remember, guard_data, sqlite_sequence,
                   clock, hist>>

\* SELECT banned FROM bot_users WHERE ...; row['banned'] == 1 if row else False
SelectBanned(bu, bot_token, user_id) ==
    IF BotUserOf(bu, bot_token, user_id) = {} THEN FALSE
    ELSE (CHOOSE r \in BotUserOf(bu, bot_token, user_id) : TRUE).banned = 1

is_bot_user_banned(bot_token, user_id) ==
    /\ ret' = Ret("is_bot_user_banned", bot_token, user_id,
                  SelectBanned(bot_users, bot_token, user_id), 0)
    /\ UNCHANGED <<tables, tables2, io, clock, hist, callers>>

(* ============================ FAKE SUBS =============================== *)
\* INSERT OR REPLACE INTO fake_subs (...): bot_token is the primary key
ReplaceFakeSub(fs, bot_token, enabled, message, now) ==
    {r \in fs : r.bot_token # bot_token}
      \cup {[bot_token |-> bot_token, enabled |-> IF enabled THEN 1 ELSE 0,
             message |-> message, updated_at |-> now]}

set_fake_sub(bot_token, enabled, message, now) ==
    /\ clock' = now
    /\ fake_subs' = ReplaceFakeSub(fake_subs, bot_token, enabled, message, now)
    /\ ret' = Ret("set_fake_sub", bot_token, 0, TRUE, 0)
    /\ UNCHANGED callers
    /\ UNCHANGED <<tables2, io>>
    /\ UNCHANGED <<members, bots, bot_users, remember, guard_data, sqlite_sequence, hist>>


(* ======================== REMEMBER (AI MEMORY) ======================== *)
Partition(rm, bot_token, user_id) ==
    {r \in rm : r.bot_token = bot_token /\ r.user_id = user_id}

Ids(rows) == {r.id : r \in rows}

\* the subsets of S that have exactly k elements
RECURSIVE KSubsets(_, _)
KSubsets(S, k) ==
    IF k = 0 THEN {{}}
    ELSE IF Cardinality(S) < k THEN {}
    ELSE LET x == CHOOSE y \in S : TRUE
         IN  {D \cup {x} : D \in KSubsets(S \ {x}, k - 1)} \cup KSubsets(S \ {x}, k)

\* INSERT INTO remember (...): id from AUTOINCREMENT
InsertMemory(rm, id, bot_token, user_id, role, content, now) ==
    rm \cup {[id |-> id, bot_token |-> bot_token, user_id |-> user_id, role |-> role,
              content |-> content, created_at |-> now]}

\* mutant: the sub-select ordered ASC, which keeps the oldest rows
TopByCreatedAtAsc(rows, limit) ==
    IF Cardinality(rows) <= limit THEN {rows}
    ELSE LET cut == CHOOSE c \in {r.created_at : r \in rows} :
                       /\ Cardinality({r \in rows : r.created_at < c}) < limit
                       /\ Cardinality({r \in rows : r.created_at <= c}) >= limit
             below == {r \in rows : r.created_at < cut}
             tied == {r \in rows : r.created_at = cut}
             drop == Cardinality(below) + Cardinality(tied) - limit
         IN  {below \cup (tied \ D) : D \in KSubsets(tied, drop)}

\* SELECT ... ORDER BY created_at DESC LIMIT ?  as the set of rows it may return.
\* The ORDER BY names created_at alone: among rows of equal created_at SQL fixes no
\* order, so every choice of the rows of the last instant is a possible result.
TopByCreatedAt(rows, limit) ==
    IF Cardinality(rows) <= limit THEN {rows}
    ELSE LET cut == CHOOSE c \in {r.created_at : r \in rows} :
                       /\ Cardinality({r \in rows : r.created_at > c}) < limit
                       /\ Cardinality({r \in rows : r.created_at >= c}) >= limit
             above == {r \in rows : r.created_at > cut}
             tied == {r \in rows : r.created_at = cut}
             drop == Cardinality(above) + Cardinality(tied) - limit
         IN  {above \cup (tied \ D) : D \in KSubsets(tied, drop)}

\* mutant: DELETE FROM remember WHERE id NOT IN (keep), without the partition
DeleteNotInAnyPartition(rm, bot_token, user_id, keep) == {r \in rm : r.id \in keep}

\* DELETE FROM remember WHERE bot_token = ? AND user_id = ? AND id NOT IN (keep)
DeleteNotIn(rm, bot_token, user_id, keep) ==
    {r \in rm : ~(r.bot_token = bot_token /\ r.user_id = user_id) \/ r.id \in keep}

add_memory(bot_token, user_id, role, content, now) ==
    LET id == sqlite_sequence + 1
        inserted == InsertMemory(remember, id, bot_token, user_id, role, content, now)
    IN  /\ clock' = now
        /\ sqlite_sequence' = id
        /\ \E kept \in TopByCreatedAt(Partition(inserted, bot_token, user_id), MEMORY_LIMIT) :
              remember' = DeleteNotIn(inserted, bot_token, user_id, Ids(kept))
        /\ ret' = Ret("add_memory", bot_token, user_id, FALSE, 0)
        /\ UNCHANGED callers
        /\ UNCHANGED <<tables2, io>>
        /\ mem_log' = [mem_log EXCEPT ![<<bot_token, user_id>>] = Append(@, <<id, now>>)]
        /\ UNCHANGED <<members, bots, bot_users, fake_subs, guard_data, incs, limit_log>>

\* the limits get_memory is called with; 20 is the default of the parameter
Limits == {0, 1, 2, 20}

\* LIMIT ?: a negative limit is no limit, LIMIT 0 returns no row
SelectLimit(rows, limit) ==
    IF limit < 0 THEN {rows}
    ELSE IF limit = 0 THEN {{}}
    ELSE TopByCreatedAt(rows, limit)

\* ORDER BY created_at DESC as the sequences fetchall() may return for these rows:
\* rows of equal created_at come in any order
RECURSIVE DescOrders(_)
DescOrders(rows) ==
    IF rows = {} THEN {<<>>}
    ELSE LET newest == {r \in rows : \A s \in rows : s.created_at <= r.created_at}
         IN  UNION {{<<r>> \o q : q \in DescOrders(rows \ {r})} : r \in newest}

\* [{"role": row['role'], "content": row['content']} for row in reversed(rows)]
ReversedRoleContent(rows) ==
    [i \in 1 .. Len(rows) |-> [role |-> rows[Len(rows) + 1 - i].role,
                               content |-> rows[Len(rows) + 1 - i].content]]

get_memory(bot_token, user_id, limit) ==
    /\ \E kept \in SelectLimit(Partition(remember, bot_token, user_id), limit) :
          \E rows \in DescOrders(kept) : fetched' = ReversedRoleContent(rows)
    /\ ret' = Ret("get_memory", bot_token, user_id, FALSE, limit)
    /\ UNCHANGED <<tables, tables2, clock, hist, callers, escaped, open_conns>>

\* user_id: int = None, as a tuple: <<>> is None, <<u>> is the integer u
OptUserIds == {<<>>} \cup {<<u>> : u \in UserIds}

\* if user_id: None and 0 are false, every other integer is true
Truthy(opt) == opt # <<>> /\ opt[1] # 0

\* DELETE FROM remember WHERE bot_token = ? AND user_id = ?
DeletePartition(rm, bot_token, user_id) ==
    {r \in rm : ~(r.bot_token = bot_token /\ r.user_id = user_id)}

clear_memory(bot_token, opt) ==
    /\ remember' = IF Truthy(opt) THEN DeletePartition(remember, bot_token, opt[1])
                   ELSE DeleteRemember(remember, bot_token)
    /\ ret' = Ret("clear_memory", bot_token, IF opt = <<>> THEN 0 ELSE opt[1],
                  opt # <<>>, 0)
    /\ mem_log' = [p \in DOMAIN mem_log |->
                     IF Partition(remember', p[1], p[2]) = {} THEN <<>> ELSE mem_log[p]]
    /\ UNCHANGED <<members, bots, bot_users, fake_subs, guard_data, sqlite_sequence,
                   clock, incs, limit_log, callers, tables2, io>>

(* ============================== MEMBERS =============================== *)
MemberOf(ms, user_id) == {m \in ms : m.user_id = user_id}

\* mutant: INSERT OR REPLACE with the column default in place of the sub-select
DefaultBotsCreated(ms, user_id) == 0

\* COALESCE((SELECT bots_created FROM members WHERE user_id = ?), 0)
CoalesceBotsCreated(ms, user_id) ==
    IF MemberOf(ms, user_id) = {} THEN 0
    ELSE (CHOOSE m \in MemberOf(ms, user_id) : TRUE).bots_created

\* INSERT OR REPLACE INTO members (...): user_id is the primary key
ReplaceMember(ms, user_id, first_name, username, now) ==
    {m \in ms : m.user_id # user_id}
      \cup {[user_id |-> user_id, first_name |-> first_name, username |-> username,
             joined_at |-> now, bots_created |-> CoalesceBotsCreated(ms, user_id)]}

\* UPDATE members SET bots_created = bots_created + 1 WHERE user_id = ?
IncrementBotsCreated(ms, user_id) ==
    {IF m.user_id = user_id THEN [m EXCEPT !.bots_created = @ + 1] ELSE m : m \in ms}

add_member(user_id, first_name, username, now) ==
    /\ clock' = now
    /\ members' = ReplaceMember(members, user_id, first_name, username, now)
    /\ ret' = Ret("add_member", NULL, user_id, FALSE, 0)
    /\ UNCHANGED callers
    /\ UNCHANGED <<tables2, io>>
    /\ UNCHANGED <<bots, bot_users, fake_subs, remember, guard_data, sqlite_sequence, hist>>

\* SELECT * FROM members WHERE user_id = ?; dict(row) if row else None: ok tells
\* a dict from None, n is the bots_created of the dict
get_member(user_id) ==
    /\ ret' = Ret("get_member", NULL, user_id, MemberOf(members, user_id) # {},
                  CoalesceBotsCreated(members, user_id))
    /\ UNCHANGED <<tables, tables2, io, clock, hist, callers>>

\* add_member when its statement or its commit fails: the exception is caught and
\* logged, finally closes the connection, the function returns None
add_member_fails(user_id, at) ==
    /\ at \in Faults
    /\ ret' = Ret("add_member", NULL, user_id, FALSE, 0)
    /\ UNCHANGED <<tables, tables2, io, clock, hist, callers>>

increment_bots_created(user_id) ==
    /\ members' = IncrementBotsCreated(members, user_id)
    /\ ret' = Ret("increment_bots_created", NULL, user_id, FALSE, 0)
    /\ UNCHANGED callers
    /\ UNCHANGED <<tables2, io>>
    /\ incs' = IF MemberOf(members, user_id) = {} THEN incs
               ELSE [incs EXCEPT ![user_id] = @ + 1]
    /\ UNCHANGED <<bots, bot_users, fake_subs, remember, guard_data, sqlite_sequence,
                   clock, mem_log, limit_log>>

(* ============================= GUARD DATA ============================= *)
GuardRow(gd, bot_token, chat_id, admin_id) ==
    {g \in gd : g.bot_token = bot_token /\ g.chat_id = chat_id /\ g.admin_id = admin_id}

\* mutant: INSERT OR REPLACE INTO guard_data (...) VALUES (?, ?, ?, 1)
ReplaceKick(gd, bot_token, chat_id, admin_id) ==
    {g \in gd : ~(g.bot_token = bot_token /\ g.chat_id = chat_id /\ g.admin_id = admin_id)}
      \cup {[bot_token |-> bot_token, chat_id |-> chat_id, admin_id |-> admin_id,
             kick_count |-> 1]}

\* INSERT INTO guard_data (...) VALUES (?, ?, ?, 1)
\* ON CONFLICT(bot_token, chat_id, admin_id) DO UPDATE SET kick_count = kick_count + 1
UpsertKick(gd, bot_token, chat_id, admin_id) ==
    IF GuardRow(gd, bot_token, chat_id, admin_id) = {}
    THEN gd \cup {[bot_token |-> bot_token, chat_id |-> chat_id, admin_id |-> admin_id,
                   kick_count |-> 1]}
    ELSE {IF g \in GuardRow(gd, bot_token, chat_id, admin_id)
          THEN [g EXCEPT !.kick_count = @ + 1] ELSE g : g \in gd}

\* SELECT kick_count FROM guard_data WHERE ...; row['kick_count'] if row else dflt
SelectKick(gd, bot_token, chat_id, admin_id, dflt) ==
    IF GuardRow(gd, bot_token, chat_id, admin_id) = {} THEN dflt
    ELSE (CHOOSE g \in GuardRow(gd, bot_token, chat_id, admin_id) : TRUE).kick_count

\* increment_guard_kick run alone: the upsert, its commit, the SELECT, the return
increment_guard_kick(bot_token, chat_id, admin_id) ==
    LET upserted == UpsertKick(guard_data, bot_token, chat_id, admin_id)
    IN  /\ guard_data' = upserted
        /\ ret' = RetChat("increment_guard_kick", bot_token, chat_id, admin_id,
                          SelectKick(upserted, bot_token, chat_id, admin_id, 1))
        /\ kick_log' = [kick_log EXCEPT ![<<bot_token, chat_id, admin_id>>] =
                           Append(@, SelectKick(upserted, bot_token, chat_id, admin_id, 1))]
        /\ UNCHANGED <<members, bots, bot_users, fake_subs, remember, sqlite_sequence,
                       tables2, io, clock, hist, proc>>

\* increment_guard_kick when the store fails in it: there is no try, the exception
\* leaves the function and conn.close() is never reached.  A failure of the upsert
\* or of its commit stores nothing; a failure of the SELECT comes after the commit,
\* so the kick is counted and the caller gets no count.
increment_guard_kick_fails(bot_token, chat_id, admin_id, at) ==
    /\ at \in Faults \cup {"select"}
    /\ guard_data' = IF at = "select"
                     THEN UpsertKick(guard_data, bot_token, chat_id, admin_id)
                     ELSE guard_data
    /\ escaped' = escaped \cup {"increment_guard_kick"}
    /\ open_conns' = open_conns \cup {"increment_guard_kick"}
    /\ ret' = RetChat("raise", bot_token, chat_id, admin_id, 0)
    /\ UNCHANGED <<members, bots, bot_users, fake_subs, remember, sqlite_sequence,
                   tables2, clock, hist, callers, fetched>>

get_guard_kick_count(bot_token, chat_id, admin_id) ==
    /\ ret' = RetChat("get_guard_kick_count", bot_token, chat_id, admin_id,
                      SelectKick(guard_data, bot_token, chat_id, admin_id, 0))
    /\ UNCHANGED <<tables, tables2, io, clock, hist, callers>>

\* mutant: the reset as UPDATE guard_data SET kick_count = 0 WHERE ...
ZeroKick(gd, bot_token, chat_id, admin_id) ==
    {IF g \in GuardRow(gd, bot_token, chat_id, admin_id)
     THEN [g EXCEPT !.kick_count = 0] ELSE g : g \in gd}

\* DELETE FROM guard_data WHERE bot_token = ? AND chat_id = ? AND admin_id = ?
DeleteKick(gd, bot_token, chat_id, admin_id) ==
    gd \ GuardRow(gd, bot_token, chat_id, admin_id)

reset_guard_kicks(bot_token, chat_id, admin_id) ==
    /\ guard_data' = DeleteKick(guard_data, bot_token, chat_id, admin_id)
    /\ ret' = RetChat("reset_guard_kicks", bot_token, chat_id, admin_id, 0)
    /\ UNCHANGED <<members, bots, bot_users, fake_subs, remember, sqlite_sequence,
                   tables2, io, clock, hist, callers>>

(* =========================== GUARD SETTINGS =========================== *)
SettingsRow(gs, bot_token, chat_id) ==
    {g \in gs : g.bot_token = bot_token /\ g.chat_id = chat_id}

\* mutant: the row written without deleting the one it conflicts with, as if
\* guard_settings had no primary key
InsertKickLimit(gs, bot_token, chat_id, limit) ==
    gs \cup {[bot_token |-> bot_token, chat_id |-> chat_id, kick_limit |-> limit]}

\* INSERT OR REPLACE INTO guard_settings (...): PRIMARY KEY (bot_token, chat_id)
ReplaceKickLimit(gs, bot_token, chat_id, limit) ==
    (gs \ SettingsRow(gs, bot_token, chat_id))
      \cup {[bot_token |-> bot_token, chat_id |-> chat_id, kick_limit |-> limit]}

\* SELECT * FROM guard_settings WHERE ...; dict(row) if row else {"kick_limit": 5}:
\* the kick_limit of the dict returned
SelectKickLimit(gs, bot_token, chat_id) ==
    IF SettingsRow(gs, bot_token, chat_id) = {} THEN DEFAULT_KICK_LIMIT
    ELSE (CHOOSE g \in SettingsRow(gs, bot_token, chat_id) : TRUE).kick_limit

set_guard_kick_limit(bot_token, chat_id, limit) ==
    /\ guard_settings' = ReplaceKickLimit(guard_settings, bot_token, chat_id, limit)
    /\ ret' = RetChat("set_guard_kick_limit", bot_token, chat_id, 0, limit)
    /\ limit_log' = [limit_log EXCEPT ![<<bot_token, chat_id>>] = Append(@, limit)]
    /\ UNCHANGED <<tables, developers, banned_makers, adhkar_schedules, schema, io,
                   clock, incs, mem_log, callers>>

get_guard_settings(bot_token, chat_id) ==
    /\ ret' = RetChat("get_guard_settings", bot_token, chat_id, 0,
                      SelectKickLimit(guard_settings, bot_token, chat_id))
    /\ UNCHANGED <<tables, tables2, io, clock, hist, callers>>

(* ============== DEVELOPERS, BANNED MAKERS, ADHKAR SCHEDULES ============ *)
\* INSERT OR REPLACE INTO developers (...): user_id is the primary key
ReplaceDeveloper(ds, user_id, username, now, added_by) ==
    {d \in ds : d.user_id # user_id}
      \cup {[user_id |-> user_id, username |-> username, added_at |-> now,
             added_by |-> added_by]}

add_developer(user_id, username, added_by, now) ==
    /\ clock' = now
    /\ developers' = ReplaceDeveloper(developers, user_id, username, now, added_by)
    /\ ret' = Ret("add_developer", NULL, user_id, TRUE, 0)
    /\ UNCHANGED <<tables, guard_settings, banned_makers, adhkar_schedules, schema, io,
                   hist, callers>>

\* INSERT OR REPLACE INTO banned_makers (...): user_id is the primary key
ReplaceBannedMaker(bm, user_id, now, banned_by) ==
    {b \in bm : b.user_id # user_id}
      \cup {[user_id |-> user_id, banned_at |-> now, banned_by |-> banned_by]}

ban_maker(user_id, banned_by, now) ==
    /\ clock' = now
    /\ banned_makers' = ReplaceBannedMaker(banned_makers, user_id, now, banned_by)
    /\ ret' = Ret("ban_maker", NULL, user_id, TRUE, 0)
    /\ UNCHANGED <<tables, guard_settings, developers, adhkar_schedules, schema, io,
                   hist, callers>>

\* INSERT OR REPLACE INTO adhkar_schedules (...): UNIQUE(bot_token, chat_id).  The
\* surrogate id of the row is read by no statement of the module and is left out.
ReplaceAdhkarSchedule(sc, bot_token, chat_id, interval_minutes, end_time, now) ==
    {r \in sc : ~(r.bot_token = bot_token /\ r.chat_id = chat_id)}
      \cup {[bot_token |-> bot_token, chat_id |-> chat_id,
             interval_minutes |-> interval_minutes, end_time |-> end_time,
             created_at |-> now]}

add_adhkar_schedule(bot_token, chat_id, interval_minutes, end_time, now) ==
    /\ clock' = now
    /\ adhkar_schedules' = ReplaceAdhkarSchedule(adhkar_schedules, bot_token, chat_id,
                                                 interval_minutes, end_time, now)
    /\ ret' = RetChat("add_adhkar_schedule", bot_token, chat_id, 0, 0)
    /\ UNCHANGED <<tables, guard_settings, developers, banned_makers, schema, io,
                   hist, callers>>

(* ============================== SCHEMA ================================ *)
\* the ten tables init_database creates
TableNames == {"members", "bots", "bot_users", "developers", "banned_makers",
               "fake_subs", "remember", "adhkar_schedules", "guard_data",
               "guard_settings"}

\* mutant: DROP TABLE IF EXISTS, then CREATE TABLE
RecreateTable(name, rows) == {}

\* CREATE TABLE IF NOT EXISTS: a table that exists keeps its rows, a new one is
\* empty
CreateIfNotExists(name, rows) == IF name \in schema THEN rows ELSE {}

\* the ten CREATE TABLE IF NOT EXISTS statements, committed together
init_database ==
    /\ members' = CreateIfNotExists("members", members)
    /\ bots' = CreateIfNotExists("bots", bots)
    /\ bot_users' = CreateIfNotExists("bot_users", bot_users)
    /\ developers' = CreateIfNotExists("developers", developers)
    /\ banned_makers' = CreateIfNotExists("banned_makers", banned_makers)
    /\ fake_subs' = CreateIfNotExists("fake_subs", fake_subs)
    /\ remember' = CreateIfNotExists("remember", remember)
    /\ adhkar_schedules' = CreateIfNotExists("adhkar_schedules", adhkar_schedules)
    /\ guard_data' = CreateIfNotExists("guard_data", guard_data)
    /\ guard_settings' = CreateIfNotExists("guard_settings", guard_settings)
    /\ schema' = schema \cup TableNames
    /\ ret' = Ret("init_database", NULL, 0, FALSE, 0)
    /\ UNCHANGED <<sqlite_sequence, clock, hist, callers, io>>

(* =========================== CLEAR DATABASE =========================== *)
\* mutant: guard_settings missing from the list of tables
ClearedTablesButOne == TableNames \ {"guard_settings"}

\* tables = ['members', 'bots', ...]
ClearedTables == {"members", "bots", "bot_users", "developers", "banned_makers",
                  "fake_subs", "remember", "adhkar_schedules", "guard_data",
                  "guard_settings"}

\* for table in tables: DELETE FROM {table}
DeleteFrom(name, rows) == IF name \in ClearedTables THEN {} ELSE rows

\* the DELETE statements, committed together.  sqlite_sequence is no table of the
\* list: the ids of remember go on from where they were.
clear_all_data ==
    /\ members' = DeleteFrom("members", members)
    /\ bots' = DeleteFrom("bots", bots)
    /\ bot_users' = DeleteFrom("bot_users", bot_users)
    /\ developers' = DeleteFrom("developers", developers)
    /\ banned_makers' = DeleteFrom("banned_makers", banned_makers)
    /\ fake_subs' = DeleteFrom("fake_subs", fake_subs)
    /\ remember' = DeleteFrom("remember", remember)
    /\ adhkar_schedules' = DeleteFrom("adhkar_schedules", adhkar_schedules)
    /\ guard_data' = DeleteFrom("guard_data", guard_data)
    /\ guard_settings' = DeleteFrom("guard_settings", guard_settings)
    /\ ret' = Ret("clear_all_data", NULL, 0, FALSE, 0)
    /\ incs' = [u \in DOMAIN incs |-> 0]
    /\ mem_log' = [p \in DOMAIN mem_log |-> <<>>]
    /\ limit_log' = [k \in DOMAIN limit_log |-> <<>>]
    /\ kick_log' = [k \in DOMAIN kick_log |-> <<>>]
    /\ UNCHANGED <<sqlite_sequence, schema, clock, proc, io>>

(* ===================== STATEMENT-LEVEL EXECUTION ====================== *)
(* Several callers run repository functions at once.  A step is what one   *)
(* connection makes visible at once: the statements up to a conn.commit(), *)
(* or one SELECT outside a transaction.  SQLite serialises the writers.    *)
Idle == [pc |-> "idle", bot_token |-> NULL, user_id |-> 0, chat_id |-> 0,
         admin_id |-> 0, count |-> 0, val |-> 0]

\* increment_guard_kick, lines 574-580: the upsert and its commit
igk_upsert(p, bot_token, chat_id, admin_id) ==
    /\ proc[p].pc = "idle"
    /\ guard_data' = UpsertKick(guard_data, bot_token, chat_id, admin_id)
    /\ proc' = [proc EXCEPT ![p] = [Idle EXCEPT !.pc = "igk_select",
                  !.bot_token = bot_token, !.chat_id = chat_id, !.admin_id = admin_id]]
    /\ UNCHANGED <<tables2, io>>
    /\ UNCHANGED <<members, bots, bot_users, fake_subs, remember, sqlite_sequence,
                   clock, ret, hist, kick_log>>

\* increment_guard_kick, lines 581-585: the SELECT and the return
igk_select(p) ==
    LET a == proc[p]
        val == SelectKick(guard_data, a.bot_token, a.chat_id, a.admin_id, 1)
    IN  /\ a.pc = "igk_select"
        /\ proc' = [proc EXCEPT ![p] = [Idle EXCEPT !.val = val]]
        /\ kick_log' = [kick_log EXCEPT ![<<a.bot_token, a.chat_id, a.admin_id>>] =
                           Append(@, val)]
        /\ UNCHANGED <<tables2, io>>
        /\ UNCHANGED <<tables, clock, ret, hist>>

\* add_bot_user, lines 286-290: the insert and its commit
abu_insert(p, bot_token, user_id, first_name, username, now) ==
    /\ proc[p].pc = "idle"
    /\ clock' = now
    /\ bot_users' = InsertOrIgnoreBotUser(bot_users, bot_token, user_id, first_name,
                                          username, now)
    /\ proc' = [proc EXCEPT ![p] = [Idle EXCEPT !.pc = "abu_count",
                  !.bot_token = bot_token, !.user_id = user_id]]
    /\ UNCHANGED <<tables2, io>>
    /\ UNCHANGED <<members, bots, fake_subs, remember, guard_data, sqlite_sequence,
                   ret, hist, kick_log>>

\* add_bot_user, lines 291-292: the recount
abu_count(p) ==
    /\ proc[p].pc = "abu_count"
    /\ proc' = [proc EXCEPT ![p].pc = "abu_update",
                            ![p].count = CountActive(bot_users, proc[p].bot_token)]
    /\ UNCHANGED <<tables2, io>>
    /\ UNCHANGED <<tables, clock, ret, hist, kick_log>>

\* add_bot_user, lines 293-294: the update of users_count and its commit
abu_update(p) ==
    /\ proc[p].pc = "abu_update"
    /\ bots' = SetUsersCount(bots, proc[p].bot_token, proc[p].count)
    /\ proc' = [proc EXCEPT ![p] = [Idle EXCEPT !.bot_token = proc[p].bot_token,
                                                !.user_id = proc[p].user_id]]
    /\ UNCHANGED <<tables2, io>>
    /\ UNCHANGED <<members, bot_users, fake_subs, remember, guard_data, sqlite_sequence,
                   clock, ret, hist, kick_log>>

\* add_memory, lines 476-480: the insert and its commit
am_insert(p, bot_token, user_id, role, content, now) ==
    LET id == sqlite_sequence + 1
    IN  /\ proc[p].pc = "idle"
        /\ clock' = now
        /\ sqlite_sequence' = id
        /\ remember' = InsertMemory(remember, id, bot_token, user_id, role, content, now)
        /\ mem_log' = [mem_log EXCEPT ![<<bot_token, user_id>>] = Append(@, <<id, now>>)]
        /\ proc' = [proc EXCEPT ![p] = [Idle EXCEPT !.pc = "am_prune",
                      !.bot_token = bot_token, !.user_id = user_id]]
        /\ UNCHANGED <<tables2, io>>
        /\ UNCHANGED <<members, bots, bot_users, fake_subs, guard_data, ret, incs,
                       limit_log, kick_log>>

\* add_memory, lines 481-487: the prune and its commit
am_prune(p) ==
    LET a == proc[p]
    IN  /\ a.pc = "am_prune"
        /\ \E kept \in TopByCreatedAt(Partition(remember, a.bot_token, a.user_id),
                                      MEMORY_LIMIT) :
              remember' = DeleteNotIn(remember, a.bot_token, a.user_id, Ids(kept))
        /\ proc' = [proc EXCEPT ![p] = [Idle EXCEPT !.bot_token = a.bot_token,
                                                    !.user_id = a.user_id]]
        /\ UNCHANGED <<tables2, io>>
        /\ UNCHANGED <<members, bots, bot_users, fake_subs, guard_data, sqlite_sequence,
                       clock, ret, hist, kick_log>>

\* the process dies inside a call: what it committed stays, the rest of the call
\* never runs
crash(p) ==
    /\ proc[p].pc \notin {"idle", "crashed"}
    /\ proc' = [proc EXCEPT ![p].pc = "crashed"]
    /\ UNCHANGED <<tables2, io>>
    /\ UNCHANGED <<tables, clock, ret, hist, kick_log>>

(* ============================== INIT ================================== *)
GuardKeys == Tokens \X ChatIds \X UserIds

\* the part of the state after init_database() that no earlier call has touched
InitRest ==
    /\ guard_settings = {}
    /\ developers = {}
    /\ banned_makers = {}
    /\ adhkar_schedules = {}
    /\ schema = TableNames
    /\ limit_log = [k \in Tokens \X ChatIds |-> <<>>]
    /\ fetched = <<>>
    /\ escaped = {}
    /\ open_conns = {}

\* the state after init_database() on a fresh store: every table empty
Init ==
    /\ members = {}
    /\ bots = {}
    /\ bot_users = {}
    /\ fake_subs = {}
    /\ remember = {}
    /\ guard_data = {}
    /\ sqlite_sequence = 0
    /\ clock = 1
    /\ ret = Ret("init_database", NULL, 0, FALSE, 0)
    /\ incs = [u \in UserIds |-> 0]
    /\ mem_log = [p \in Tokens \X UserIds |-> <<>>]
    /\ proc = [p \in Procs |-> Idle]
    /\ kick_log = [k \in GuardKeys |-> <<>>]
    /\ InitRest

\* a conversation of n turns between user 1 and the bot tokA, as n add_memory
\* calls leave it; the first `tie` of them fell into the same instant
Conversation(n, tie) ==
    {[id |-> i, bot_token |-> "tokA", user_id |-> 1,
      role |-> IF i % 2 = 1 THEN "user" ELSE "assistant", content |-> "hi",
      created_at |-> IF i <= tie THEN 1 ELSE i] : i \in 1 .. n}

\* a store that holds nothing, or one conversation one turn short of the limit
InitMemory ==
    \E n \in {0, MEMORY_LIMIT - 1}, tie \in 1 .. MaxTie :
        /\ members = {}
        /\ bots = {}
        /\ bot_users = {}
        /\ fake_subs = {}
        /\ remember = Conversation(n, tie)
        /\ guard_data = {}
        /\ sqlite_sequence = n
        /\ clock = IF n = 0 THEN 1 ELSE n
        /\ ret = Ret("init_database", NULL, 0, FALSE, 0)
        /\ incs = [u \in UserIds |-> 0]
        /\ mem_log = [p \in Tokens \X UserIds |->
                        IF p = <<"tokA", 1>>
                        THEN [i \in 1 .. n |-> <<i, IF i <= tie THEN 1 ELSE i>>]
                        ELSE <<>>]
        /\ proc = [p \in Procs |-> Idle]
        /\ kick_log = [k \in GuardKeys |-> <<>>]
        /\ InitRest

\* at most MaxAppends calls of add_memory after the initial contents
AppendsLeft ==
    \/ sqlite_sequence < MaxAppends
    \/ /\ sqlite_sequence >= MEMORY_LIMIT - 1
       /\ sqlite_sequence < MEMORY_LIMIT - 1 + MaxAppends

\* a store in which both bots have been registered by add_bot
InitBots ==
    /\ members = {}
    /\ bots = InsertBot(InsertBot({}, "tokA", "abot", "ai", 0, 1, NULL),
                        "tokB", "bbot", "guard", 1, 1, NULL)
    /\ bot_users = {}
    /\ fake_subs = {}
    /\ remember = {}
    /\ guard_data = {}
    /\ sqlite_sequence = 0
    /\ clock = 1
    /\ ret = Ret("add_bot", "tokB", 1, TRUE, 0)
    /\ incs = [u \in UserIds |-> 0]
    /\ mem_log = [p \in Tokens \X UserIds |-> <<>>]
    /\ proc = [p \in Procs |-> Idle]
    /\ kick_log = [k \in GuardKeys |-> <<>>]
    /\ InitRest

\* a store before the module is first imported, with no table in it, or a store
\* that earlier calls left with a row in each of its tables
InitStore ==
    \E fresh \in BOOLEAN :
        /\ schema = IF fresh THEN {} ELSE TableNames
        /\ members = IF fresh THEN {} ELSE ReplaceMember({}, 1, "Ann", NULL, 1)
        /\ bots = IF fresh THEN {}
                  ELSE SetUsersCount(InsertBot({}, "tokA", "abot", "ai", 1, 1, NULL),
                                     "tokA", 1)
        /\ bot_users = IF fresh THEN {}
                       ELSE InsertOrIgnoreBotUser({}, "tokA", 1, "Ann", NULL, 1)
        /\ developers = IF fresh THEN {} ELSE ReplaceDeveloper({}, 1, "ann", 1, 0)
        /\ banned_makers = IF fresh THEN {} ELSE ReplaceBannedMaker({}, 0, 1, 1)
        /\ fake_subs = IF fresh THEN {} ELSE ReplaceFakeSub({}, "tokA", TRUE, "join", 1)
        /\ remember = IF fresh THEN {}
                      ELSE InsertMemory({}, 1, "tokA", 1, "user", "hi", 1)
        /\ adhkar_schedules = IF fresh THEN {}
                              ELSE ReplaceAdhkarSchedule({}, "tokA", 10, 5, NULL, 1)
        /\ guard_data = IF fresh THEN {} ELSE UpsertKick({}, "tokA", 10, 1)
        /\ guard_settings = IF fresh THEN {} ELSE ReplaceKickLimit({}, "tokA", 10, 7)
        /\ sqlite_sequence = IF fresh THEN 0 ELSE 1
        /\ clock = 1
        /\ ret = IF fresh THEN Ret("import", NULL, 0, FALSE, 0)
                 ELSE RetChat("set_guard_kick_limit", "tokA", 10, 0, 7)
        /\ incs = [u \in UserIds |-> 0]
        /\ mem_log = [p \in Tokens \X UserIds |->
                        IF ~fresh /\ p = <<"tokA", 1>> THEN <<<<1, 1>>>> ELSE <<>>]
        /\ proc = [p \in Procs |-> Idle]
        /\ kick_log = [k \in GuardKeys |->
                         IF ~fresh /\ k = <<"tokA", 10, 1>> THEN <<1>> ELSE <<>>]
        /\ limit_log = [k \in Tokens \X ChatIds |->
                          IF ~fresh /\ k = <<"tokA", 10>> THEN <<7>> ELSE <<>>]
        /\ fetched = <<>>
        /\ escaped = {}
        /\ open_conns = {}

\* a store in which each of the two bots has, under its token, a row in bots,
\* bot_users, fake_subs, remember, adhkar_schedules, guard_data and guard_settings
InitTwoBots ==
    /\ members = {}
    /\ bots = SetUsersCount(SetUsersCount(
                   InsertBot(InsertBot({}, "tokA", "abot", "ai", 0, 1, NULL),
                             "tokB", "bbot", "guard", 1, 1, NULL), "tokA", 1), "tokB", 1)
    /\ bot_users = InsertOrIgnoreBotUser(
                       InsertOrIgnoreBotUser({}, "tokA", 1, "Ann", NULL, 1),
                       "tokB", 1, "Ann", NULL, 1)
    /\ fake_subs = ReplaceFakeSub(ReplaceFakeSub({}, "tokA", TRUE, "join", 1),
                                  "tokB", TRUE, "join", 1)
    /\ remember = InsertMemory(InsertMemory({}, 1, "tokA", 1, "user", "hi", 1),
                               2, "tokB", 1, "user", "hi", 1)
    /\ guard_data = UpsertKick(UpsertKick({}, "tokA", 10, 1), "tokB", 10, 1)
    /\ sqlite_sequence = 2
    /\ clock = 1
    /\ ret = RetChat("set_guard_kick_limit", "tokB", 10, 0, 7)
    /\ incs = [u \in UserIds |-> 0]
    /\ mem_log = [p \in Tokens \X UserIds |->
                    IF p = <<"tokA", 1>> THEN <<<<1, 1>>>>
                    ELSE IF p = <<"tokB", 1>> THEN <<<<2, 1>>>> ELSE <<>>]
    /\ proc = [p \in Procs |-> Idle]
    /\ kick_log = [k \in GuardKeys |->
                     IF k \in {<<"tokA", 10, 1>>, <<"tokB", 10, 1>>} THEN <<1>> ELSE <<>>]
    /\ limit_log = [k \in Tokens \X ChatIds |->
                      IF k \in {<<"tokA", 10>>, <<"tokB", 10>>} THEN <<7>> ELSE <<>>]
    /\ guard_settings = ReplaceKickLimit(ReplaceKickLimit({}, "tokA", 10, 7),
                                         "tokB", 10, 7)
    /\ developers = {}
    /\ banned_makers = {}
    /\ adhkar_schedules = ReplaceAdhkarSchedule(
                              ReplaceAdhkarSchedule({}, "tokA", 10, 5, NULL, 1),
                              "tokB", 10, 5, NULL, 1)
    /\ schema = TableNames
    /\ fetched = <<>>
    /\ escaped = {}
    /\ open_conns = {}

(* =========================== SPECIFICATIONS =========================== *)
\* bots and their users, one call at a time
Next ==
    \/ \E t \in Tokens, now \in Now(1) : add_bot(t, "abot", "ai", 0, NULL, now)
    \/ \E t \in Tokens : delete_bot(t)
    \/ \E t \in Tokens, u \in UserIds, fn \in FirstNames, now \in Now(1) :
          add_bot_user(t, u, fn, NULL, now)
    \/ \E t \in Tokens, u \in UserIds : ban_bot_user(t, u)
    \/ \E t \in Tokens, u \in UserIds : unban_bot_user(t, u)

Spec == Init /\ [][Next]_vars

\* the bots table, one call at a time
NextBots ==
    \/ \E t \in Tokens, bu \in BotUsernames, bt \in BotTypes, o \in UserIds,
          ch \in Channels, now \in Now(1) : add_bot(t, bu, bt, o, ch, now)
    \/ \E t \in Tokens : delete_bot(t)
    \/ \E t \in Tokens, now \in Now(1) : add_bot_user(t, 1, "Ann", NULL, now)

SpecBots == Init /\ [][NextBots]_vars

\* a bot and everything stored under its token, one call at a time
NextCascade ==
    \/ \E t \in Tokens, now \in Now(1) : add_bot(t, "abot", "ai", 0, NULL, now)
    \/ \E t \in Tokens, u \in UserIds, now \in Now(1) : add_bot_user(t, u, "Ann", NULL, now)
    \/ \E t \in Tokens, now \in Now(1) : set_fake_sub(t, TRUE, "join", now)
    \/ \E t \in Tokens, now \in Now(1) :
          sqlite_sequence < MaxMemIds /\ add_memory(t, 1, "user", "hi", now)
    \/ \E t \in Tokens : delete_bot(t)

SpecCascade == Init /\ [][NextCascade]_vars

\* the members table, one call at a time
NextMembers ==
    \/ \E u \in UserIds, fn \in FirstNames, un \in Usernames, now \in Now(MaxTime) :
          add_member(u, fn, un, now)
    \/ \E u \in UserIds : incs[u] < MaxIncrements /\ increment_bots_created(u)

SpecMembers == Init /\ [][NextMembers]_vars

\* the remember table, one call at a time
NextMemory ==
    \E t \in Tokens, u \in UserIds, r \in Roles, now \in Now(clock + 1) :
        AppendsLeft /\ add_memory(t, u, r, "hi", now)

SpecMemory == InitMemory /\ [][NextMemory]_vars

\* increment_guard_kick by several callers at once
NextGuardSteps ==
    \/ \E p \in Procs, c \in ChatIds :
          /\ SelectKick(guard_data, "tokA", c, 1, 0) < MaxKicks
          /\ igk_upsert(p, "tokA", c, 1)
    \/ \E p \in Procs : igk_select(p)

SpecGuardSteps == Init /\ [][NextGuardSteps]_vars

\* add_bot_user by several callers at once, any of which may die
NextBotUserSteps ==
    \/ \E p \in Procs, u \in UserIds, now \in Now(1) :
          abu_insert(p, "tokA", u, "Ann", NULL, now)
    \/ \E p \in Procs : abu_count(p)
    \/ \E p \in Procs : abu_update(p)
    \/ \E p \in Procs : crash(p)

SpecBotUserSteps == InitBots /\ [][NextBotUserSteps]_vars

\* add_memory by several callers at once, any of which may die
NextMemorySteps ==
    \/ \E p \in Procs, u \in UserIds, now \in Now(clock + 1) :
          \E c \in Contents : AppendsLeft /\ am_insert(p, "tokA", u, "user", c, now)
    \/ \E p \in Procs : am_prune(p)
    \/ \E p \in Procs : crash(p)

SpecMemorySteps == InitMemory /\ [][NextMemorySteps]_vars

\* the users of two registered bots banned, unbanned and looked up, one call at
\* a time
NextBans ==
    \/ \E t \in Tokens, u \in UserIds, now \in Now(1) : add_bot_user(t, u, "Ann", NULL, now)
    \/ \E t \in Tokens, u \in UserIds : ban_bot_user(t, u)
    \/ \E t \in Tokens, u \in UserIds : unban_bot_user(t, u)
    \/ \E t \in Tokens, u \in UserIds : is_bot_user_banned(t, u)

SpecBans == InitBots /\ [][NextBans]_vars

\* calls in which the store may fail, one call at a time
NextFailures ==
    \/ \E t \in Tokens, now \in Now(1) : add_bot(t, "abot", "ai", 0, NULL, now)
    \/ \E t \in Tokens, at \in Faults \cup {"connect"} : add_bot_fails(t, 0, at)
    \/ \E t \in Tokens : delete_bot(t)
    \/ \E t \in Tokens, at \in Faults : delete_bot_fails(t, at)
    \/ \E u \in UserIds, now \in Now(1) : add_member(u, "Ann", NULL, now)
    \/ \E u \in UserIds, at \in Faults : add_member_fails(u, at)
    \/ /\ SelectKick(guard_data, "tokA", 10, 1, 0) < MaxKicks
       /\ increment_guard_kick("tokA", 10, 1)
    \/ \E at \in Faults \cup {"select"} :
          /\ SelectKick(guard_data, "tokA", 10, 1, 0) < MaxKicks
          /\ increment_guard_kick_fails("tokA", 10, 1, at)

SpecFailures == Init /\ [][NextFailures]_vars

\* the (bot_token, chat_id) pairs of SpecGuardSettings: two chats of one bot and
\* a chat of another bot
SettingsPairs == {<<"tokA", 10>>, <<"tokA", 20>>, <<"tokB", 10>>}

\* the guard_settings table, one call at a time
NextGuardSettings ==
    \/ \E k \in SettingsPairs, limit \in KickLimits :
          Len(limit_log[k]) < MaxSets /\ set_guard_kick_limit(k[1], k[2], limit)
    \/ \E k \in SettingsPairs : get_guard_settings(k[1], k[2])
    \/ clear_all_data

SpecGuardSettings == Init /\ [][NextGuardSettings]_vars

\* the guard_data table, one call at a time
NextGuardKicks ==
    \/ \E c \in ChatIds :
          Len(kick_log[<<"tokA", c, 1>>]) < MaxKicks /\ increment_guard_kick("tokA", c, 1)
    \/ \E c \in ChatIds : reset_guard_kicks("tokA", c, 1)
    \/ \E c \in ChatIds : get_guard_kick_count("tokA", c, 1)
    \/ clear_all_data

SpecGuardKicks == Init /\ [][NextGuardKicks]_vars

\* the whole store created, written, read and cleared, one call at a time.  The
\* module runs init_database when it is imported: no other function is called on
\* a store without its tables.
NextStore ==
    \/ init_database
    \/ schema = TableNames /\ clear_all_data
    \/ \E now \in Now(1) : schema = TableNames /\ add_member(1, "Ann", NULL, now)
    \/ \E now \in Now(1) : schema = TableNames /\ add_developer(1, "ann", 0, now)
    \/ \E now \in Now(1) : schema = TableNames /\ ban_maker(0, 1, now)
    \/ \E now \in Now(1) :
          schema = TableNames /\ add_adhkar_schedule("tokA", 10, 5, NULL, now)
    \/ \E now \in Now(1) :
          /\ schema = TableNames
          /\ sqlite_sequence < MaxMemIds
          /\ add_memory("tokA", 1, "user", "hi", now)
    \/ /\ schema = TableNames
       /\ Len(kick_log[<<"tokA", 10, 1>>]) < MaxKicks
       /\ increment_guard_kick("tokA", 10, 1)
    \/ /\ schema = TableNames
       /\ Len(limit_log[<<"tokA", 10>>]) < MaxSets
       /\ set_guard_kick_limit("tokA", 10, 7)
    \/ schema = TableNames /\ get_member(1)
    \/ schema = TableNames /\ get_memory("tokA", 1, MEMORY_LIMIT)
    \/ schema = TableNames /\ get_guard_kick_count("tokA", 10, 1)
    \/ schema = TableNames /\ get_guard_settings("tokA", 10)
    \/ schema = TableNames /\ is_bot_user_banned("tokA", 1)

SpecStore == InitStore /\ [][NextStore]_vars

\* the users of one registered bot added again under other names and at later
\* instants, banned and unbanned, one call at a time
NextBotUsers ==
    \/ \E u \in UserIds, fn \in FirstNames, un \in Usernames, now \in Now(MaxTime) :
          add_bot_user("tokA", u, fn, un, now)
    \/ \E u \in UserIds : ban_bot_user("tokA", u)
    \/ \E u \in UserIds : unban_bot_user("tokA", u)

SpecBotUsers == InitBots /\ [][NextBotUsers]_vars

\* bots registered, switched on and off and deleted, one call at a time
NextToggle ==
    \/ \E t \in Tokens, now \in Now(1) : add_bot(t, "abot", "ai", 0, NULL, now)
    \/ \E t \in Tokens, now \in Now(1) : add_bot_user(t, 1, "Ann", NULL, now)
    \/ \E t \in Tokens : toggle_bot_active(t)
    \/ \E t \in Tokens : delete_bot(t)

SpecToggle == Init /\ [][NextToggle]_vars

\* two bots with rows in every table keyed by a bot token, deleted and registered
\* again, one call at a time
NextDeleteFrame ==
    \/ \E t \in Tokens : delete_bot(t)
    \/ \E t \in Tokens, now \in Now(1) : add_bot(t, "abot", "ai", 0, NULL, now)
    \/ \E t \in Tokens, now \in Now(1) : add_bot_user(t, 1, "Ann", NULL, now)
    \/ \E t \in Tokens, now \in Now(1) : set_fake_sub(t, TRUE, "join", now)
    \/ \E t \in Tokens :
          Len(kick_log[<<t, 10, 1>>]) < MaxKicks /\ increment_guard_kick(t, 10, 1)

SpecDeleteFrame == InitTwoBots /\ [][NextDeleteFrame]_vars

\* the remember table written, read and cleared, one call at a time
NextMemoryOps ==
    \/ \E t \in Tokens, u \in UserIds, c \in Contents, now \in Now(MaxTime) :
          AppendsLeft /\ add_memory(t, u, "user", c, now)
    \/ \E t \in Tokens, u \in UserIds, limit \in Limits : get_memory(t, u, limit)
    \/ \E t \in Tokens, opt \in OptUserIds : clear_memory(t, opt)

SpecMemoryOps == Init /\ [][NextMemoryOps]_vars

(* ============================== CLAIMS ================================ *)
AllReturned == \A p \in Procs : proc[p].pc = "idle"

\* C1: right after an add_bot_user call on a token whose Bot row exists, that
\* Bot's users_count is the number of bot_users rows of the token with banned = 0
\* (sequential calls of add_bot_user, ban_bot_user, unban_bot_user).
C1_CountAfterAdd ==
    ret.op = "add_bot_user" =>
        \A b \in bots : b.token = ret.token =>
            b.users_count =
                Cardinality({r \in bot_users : r.bot_token = b.token /\ r.banned = 0})

\* an add_bot_user that returned while a user of that bot was banned and another
\* was not
C1_Witness ==
    /\ ret.op = "add_bot_user"
    /\ \E b \in bots : b.token = ret.token /\ b.users_count = 1
    /\ \E r \in bot_users : r.bot_token = ret.token /\ r.banned = 1
    /\ \E r \in bot_users : r.bot_token = ret.token /\ r.banned = 0

\* C4: after delete_bot(token) returns, no row of bots, bot_users, fake_subs or
\* remember carries that token.
C4_CascadeDelete ==
    ret.op = "delete_bot" =>
        /\ \A b \in bots : b.token # ret.token
        /\ \A r \in bot_users : r.bot_token # ret.token
        /\ \A r \in fake_subs : r.bot_token # ret.token
        /\ \A r \in remember : r.bot_token # ret.token

\* a delete_bot that removed every memory row ever written, while the other bot
\* keeps its row, its users and its fake_subs row
C4_Witness ==
    /\ ret.op = "delete_bot"
    /\ sqlite_sequence = MaxMemIds
    /\ remember = {}
    /\ \E b \in bots : b.token # ret.token /\ b.users_count = 2
    /\ \E r \in fake_subs : r.bot_token # ret.token

\* C5: add_member never changes the bots_created of a member that exists; the
\* stored bots_created is the number of increment_bots_created calls made while
\* the row existed; an increment for an absent member changes no row.
C5_CounterPreserved ==
    /\ [](\A m \in members : m.bots_created = incs[m.user_id])
    /\ [][/\ ret'.op = "add_member" =>
               \A m \in members : \A m2 \in members' :
                   m2.user_id = m.user_id => m2.bots_created = m.bots_created
          /\ (/\ ret'.op = "increment_bots_created"
              /\ \A m \in members : m.user_id # ret'.user_id) => members' = members
         ]_vars

\* a member upserted again, at a later instant, after one increment
C5_Witness ==
    /\ ret.op = "add_member"
    /\ \E m \in members : /\ m.user_id = ret.user_id
                          /\ m.bots_created = 1
                          /\ m.joined_at = 2

\* C6: add_bot on a token that is in bots returns false and changes no Bot row;
\* on a new token it returns true and adds exactly the one row of that token.
C6_TokenUnique ==
    [][ret'.op = "add_bot" =>
          IF \E b \in bots : b.token = ret'.token
          THEN ret'.ok = FALSE /\ bots' = bots
          ELSE /\ ret'.ok = TRUE
               /\ Cardinality({b \in bots' : b.token = ret'.token}) = 1
               /\ {b \in bots' : b.token # ret'.token} = bots
      ]_vars

\* a refused add_bot whose owner_id differs from the one of the row that is kept,
\* a row whose users_count is no longer the default
C6_Witness ==
    /\ ret.op = "add_bot"
    /\ ret.ok = FALSE
    /\ \E b \in bots : /\ b.token = ret.token
                       /\ b.owner_id # ret.user_id
                       /\ b.users_count = 1

\* the ids of the last min(n, limit) of the n add_memory calls logged in log
LastAppended(log, limit) ==
    {log[i][1] : i \in {j \in 1 .. Len(log) : j > Len(log) - limit}}

StrictlyIncreasing(log) ==
    \A i \in 1 .. Len(log), j \in 1 .. Len(log) : i < j => log[i][2] < log[j][2]

\* C2: every (bot_token, user_id) partition holds at most 20 entries, and when the
\* created_at of its add_memory calls increased from call to call it holds exactly
\* the last min(n, 20) entries appended.
C2_BoundedRetention ==
    \A p \in Tokens \X UserIds :
        LET part == {r \in remember : r.bot_token = p[1] /\ r.user_id = p[2]}
        IN  /\ Cardinality(part) <= 20
            /\ StrictlyIncreasing(mem_log[p]) =>
                   {r.id : r \in part} = LastAppended(mem_log[p], 20)

\* 21 appends at increasing instants to one partition, which holds 20 of them,
\* the first one gone
C2_Witness ==
    \E p \in Tokens \X UserIds :
        /\ ret.op = "add_memory"
        /\ Len(mem_log[p]) = 21
        /\ StrictlyIncreasing(mem_log[p])
        /\ Cardinality({r \in remember : r.bot_token = p[1] /\ r.user_id = p[2]}) = 20
        /\ \A r \in remember : r.id # mem_log[p][1][1]

\* C3: once N concurrent increment_guard_kick calls on one key, started on an
\* absent row and interleaved statement by statement, have all returned, the
\* stored kick_count of the key is N.
C3_NoLostKick ==
    AllReturned =>
        \A k \in GuardKeys :
            LET rows == {g \in guard_data : <<g.bot_token, g.chat_id, g.admin_id>> = k}
            IN  IF Len(kick_log[k]) = 0 THEN rows = {}
                ELSE \E g \in rows : g.kick_count = Len(kick_log[k])

\* two calls on one key that overlapped (each read the row after both upserts)
\* and have returned: the row holds 2
C3_Witness ==
    /\ AllReturned
    /\ \E k \in GuardKeys :
          /\ kick_log[k] = <<2, 2>>
          /\ \E g \in guard_data : <<g.bot_token, g.chat_id, g.admin_id>> = k
                                   /\ g.kick_count = 2

\* C7: no committed state, seen by a concurrent call or left by a crash inside
\* add_memory, holds a (bot_token, user_id) partition of more than 20 entries.
C7_InsertPruneAtomic ==
    \A p \in Tokens \X UserIds :
        Cardinality({r \in remember : r.bot_token = p[1] /\ r.user_id = p[2]}) <= 20

\* C8: once every concurrent add_bot_user call on an existing bot has returned,
\* or has died between its insert and its recount, the Bot's users_count is the
\* number of its bot_users rows with banned = 0.
C8_CountAfterConcurrentAdds ==
    (\A p \in Procs : proc[p].pc \in {"idle", "crashed"}) =>
        \A b \in bots :
            b.users_count =
                Cardinality({r \in bot_users : r.bot_token = b.token /\ r.banned = 0})

\* C9: N concurrent increment_guard_kick calls on one key, started on an absent
\* row, return N pairwise distinct values, exactly 1..N.
C9_DistinctReturns ==
    AllReturned =>
        \A k \in GuardKeys :
            {kick_log[k][i] : i \in 1 .. Len(kick_log[k])} = 1 .. Len(kick_log[k])

\* C10: whatever the created_at values, the entries add_memory keeps are the 20
\* with the largest (created_at, id): entries of one instant are kept in insertion
\* order, so a partition always holds the last min(n, 20) entries appended.
C10_TieBreakById ==
    \A p \in Tokens \X UserIds :
        {r.id : r \in {r \in remember : r.bot_token = p[1] /\ r.user_id = p[2]}}
            = LastAppended(mem_log[p], 20)

\* C11: get_memory(bot_token, user_id, limit) returns exactly min(limit, size of the
\* partition) entries, the most recently created ones of the partition, as
\* {role, content} and oldest first.
C11_GetMemoryLatest ==
    ret.op = "get_memory" =>
        LET part == {r \in remember : r.bot_token = ret.token /\ r.user_id = ret.user_id}
            size == Cardinality(part)
            k == IF ret.n < size THEN ret.n ELSE size
        IN  /\ Len(fetched) = k
            /\ \A i \in 1 .. k :
                  \E r \in part :
                      /\ Cardinality({s \in part : s.id <= r.id}) = size - k + i
                      /\ fetched[i] = [role |-> r.role, content |-> r.content]

\* C12: ban_bot_user and unban_bot_user set the banned flag of the row of their
\* (bot_token, user_id) pair to 1 and to 0, change no other field and no other row,
\* leave users_count alone and do nothing when the pair has no row; for such a
\* pair is_bot_user_banned returns false.
C12_BanFrame ==
    /\ []((/\ ret.op = "is_bot_user_banned"
           /\ \A r \in bot_users : ~(r.bot_token = ret.token /\ r.user_id = ret.user_id))
          => ret.ok = FALSE)
    /\ [][ret'.op \in {"ban_bot_user", "unban_bot_user"} =>
            LET flag == IF ret'.op = "ban_bot_user" THEN 1 ELSE 0
                hit(r) == r.bot_token = ret'.token /\ r.user_id = ret'.user_id
            IN  /\ bots' = bots
                /\ {r \in bot_users' : ~hit(r)} = {r \in bot_users : ~hit(r)}
                /\ {[r EXCEPT !.banned = 0] : r \in {x \in bot_users' : hit(x)}}
                     = {[r EXCEPT !.banned = 0] : r \in {x \in bot_users : hit(x)}}
                /\ \A r \in bot_users' : hit(r) => r.banned = flag
         ]_vars

\* a ban that hit a row while another user of the same bot stays unbanned and the
\* bot still shows the count of the last add_bot_user
C12_Witness ==
    /\ ret.op = "ban_bot_user"
    /\ \E r \in bot_users : /\ r.bot_token = ret.token
                            /\ r.user_id = ret.user_id
                            /\ r.banned = 1
    /\ \E r \in bot_users : /\ r.bot_token = ret.token
                            /\ r.user_id # ret.user_id
                            /\ r.banned = 0
    /\ \E b \in bots : b.token = ret.token /\ b.users_count = 2

\* C13: clear_memory with a user_id given, zero included, deletes exactly the
\* entries of that (bot_token, user_id) partition; without one it deletes exactly
\* the entries of that bot.
C13_ClearMemoryScope ==
    [][ret'.op = "clear_memory" =>
          remember' = IF ret'.ok
                      THEN {r \in remember : ~(/\ r.bot_token = ret'.token
                                               /\ r.user_id = ret'.user_id)}
                      ELSE {r \in remember : r.bot_token # ret'.token}
      ]_vars

\* C14: no repository function lets a failure of the store leave it as an
\* exception; add_bot in particular returns false on every failure and never
\* raises.
C14_NoEscape == escaped = {}

\* C15: every repository function closes its connection on every path out of it,
\* the failing ones included: no call has ended with its connection left open.
C15_AllClosed == open_conns = {}

\* C16: get_guard_settings returns kick_limit 5 for a (bot_token, chat_id) that has
\* no row, because no limit was set for it or clear_all_data removed it, and else
\* the limit set_guard_kick_limit last wrote for that pair, whatever was written
\* for other pairs.
C16_KickLimitDefault ==
    ret.op = "get_guard_settings" =>
        LET log == limit_log[<<ret.token, ret.chat_id>>]
        IN  /\ ret.n = IF Len(log) = 0 THEN 5 ELSE log[Len(log)]
            /\ Len(log) = 0 <=>
                 \A g \in guard_settings :
                     ~(g.bot_token = ret.token /\ g.chat_id = ret.chat_id)

\* a get_guard_settings that returned the second of two limits written for its
\* pair, while another pair holds the other limit
C16_Witness ==
    /\ ret.op = "get_guard_settings"
    /\ ret.n = 3
    /\ limit_log[<<ret.token, ret.chat_id>>] = <<7, 3>>
    /\ \E g \in guard_settings : /\ <<g.bot_token, g.chat_id>> # <<ret.token, ret.chat_id>>
                                 /\ g.kick_limit = 7

\* C17: after reset_guard_kicks the row of its key is absent; while it is absent
\* get_guard_kick_count returns 0; it comes back only through an
\* increment_guard_kick on the key, and that call returns 1.
C17_ResetRemovesRow ==
    /\ [](/\ ret.op = "reset_guard_kicks" =>
               \A g \in guard_data : ~(/\ g.bot_token = ret.token
                                       /\ g.chat_id = ret.chat_id
                                       /\ g.admin_id = ret.user_id)
          /\ (/\ ret.op = "get_guard_kick_count"
              /\ \A g \in guard_data : ~(/\ g.bot_token = ret.token
                                         /\ g.chat_id = ret.chat_id
                                         /\ g.admin_id = ret.user_id)) => ret.n = 0)
    /\ [][\A k \in GuardKeys :
            LET has(gd) == \E g \in gd : <<g.bot_token, g.chat_id, g.admin_id>> = k
            IN  (~has(guard_data) /\ has(guard_data')) =>
                    /\ ret'.op = "increment_guard_kick"
                    /\ <<ret'.token, ret'.chat_id, ret'.user_id>> = k
                    /\ ret'.n = 1
         ]_vars

\* the first increment_guard_kick after a reset of a key that had reached 2
C17_Witness ==
    /\ ret.op = "increment_guard_kick"
    /\ ret.n = 1
    /\ kick_log[<<ret.token, ret.chat_id, ret.user_id>>] = <<1, 2, 1>>

\* C18: the kick_count of a key is at least 1 while its row exists, every
\* increment_guard_kick on the key raises it by exactly 1 (from 0 when the row is
\* absent), and it goes down only by a reset_guard_kicks on that key or by
\* clear_all_data.
C18_KickCountMonotone ==
    /\ [](\A g \in guard_data : g.kick_count >= 1)
    /\ [][\A k \in GuardKeys :
            LET count(gd) ==
                    IF \E g \in gd : <<g.bot_token, g.chat_id, g.admin_id>> = k
                    THEN (CHOOSE g \in gd :
                              <<g.bot_token, g.chat_id, g.admin_id>> = k).kick_count
                    ELSE 0
                on_key == <<ret'.token, ret'.chat_id, ret'.user_id>> = k
            IN  /\ (ret'.op = "increment_guard_kick" /\ on_key) =>
                       count(guard_data') = count(guard_data) + 1
                /\ count(guard_data') < count(guard_data) =>
                       \/ ret'.op = "reset_guard_kicks" /\ on_key
                       \/ ret'.op = "clear_all_data"
                /\ count(guard_data') > count(guard_data) =>
                       ret'.op = "increment_guard_kick" /\ on_key
         ]_vars

\* a third increment_guard_kick in a row on a key, while the other key of the bot
\* holds 1
C18_Witness ==
    /\ ret.op = "increment_guard_kick"
    /\ ret.n = 3
    /\ kick_log[<<ret.token, ret.chat_id, ret.user_id>>] = <<1, 2, 3>>
    /\ \E g \in guard_data : /\ <<g.bot_token, g.chat_id, g.admin_id>>
                                  # <<ret.token, ret.chat_id, ret.user_id>>
                             /\ g.kick_count = 1

\* C19: init_database on a store that has its tables raises nothing and changes
\* no row and no table; run again, it leaves what the first run left.
C19_InitIdempotent ==
    [][ret'.op = "init_database" =>
          /\ schema' = {"members", "bots", "bot_users", "developers", "banned_makers",
                        "fake_subs", "remember", "adhkar_schedules", "guard_data",
                        "guard_settings"}
          /\ escaped' = escaped
          /\ schema' = schema =>
                /\ <<members', bots', bot_users', developers', banned_makers'>>
                     = <<members, bots, bot_users, developers, banned_makers>>
                /\ <<fake_subs', remember', adhkar_schedules', guard_data', guard_settings'>>
                     = <<fake_subs, remember, adhkar_schedules, guard_data, guard_settings>>
                /\ sqlite_sequence' = sqlite_sequence
      ]_vars

\* init_database run on a store that holds a row in each of its ten tables
C19_Witness ==
    /\ ret.op = "init_database"
    /\ members # {} /\ bots # {} /\ bot_users # {} /\ developers # {}
    /\ banned_makers # {} /\ fake_subs # {} /\ remember # {}
    /\ adhkar_schedules # {} /\ guard_data # {} /\ guard_settings # {}

\* C20: right after clear_all_data each of the ten tables is empty; on a store
\* whose tables are empty get_member returns None, get_memory the empty list,
\* get_guard_kick_count 0, get_guard_settings kick_limit 5 and is_bot_user_banned
\* false.
C20_ClearAll ==
    /\ [](ret.op = "clear_all_data" =>
             /\ members = {} /\ bots = {} /\ bot_users = {} /\ developers = {}
             /\ banned_makers = {} /\ fake_subs = {} /\ remember = {}
             /\ adhkar_schedules = {} /\ guard_data = {} /\ guard_settings = {})
    /\ [][(/\ members = {} /\ bots = {} /\ bot_users = {} /\ developers = {}
           /\ banned_makers = {} /\ fake_subs = {} /\ remember = {}
           /\ adhkar_schedules = {} /\ guard_data = {} /\ guard_settings = {}) =>
            /\ ret'.op = "get_member" => ret'.ok = FALSE
            /\ ret'.op = "get_memory" => fetched' = <<>>
            /\ ret'.op = "get_guard_kick_count" => ret'.n = 0
            /\ ret'.op = "get_guard_settings" => ret'.n = 5
            /\ ret'.op = "is_bot_user_banned" => ret'.ok = FALSE
         ]_vars

\* a get_guard_settings that returned the default after clear_all_data emptied a
\* store in which add_memory had stored rows
C20_Witness ==
    /\ ret.op = "get_guard_settings"
    /\ ret.n = 5
    /\ sqlite_sequence >= 1
    /\ members = {} /\ bots = {} /\ bot_users = {} /\ developers = {}
    /\ banned_makers = {} /\ fake_subs = {} /\ remember = {}
    /\ adhkar_schedules = {} /\ guard_data = {} /\ guard_settings = {}

\* C21: add_bot_user for a (bot_token, user_id) pair that has a row leaves that
\* row as it is (first_name, username, joined_at, banned), keeps one row for the
\* pair and raises nothing.
C21_DuplicateIgnored ==
    [][ret'.op = "add_bot_user" =>
          LET hit(r) == r.bot_token = ret'.token /\ r.user_id = ret'.user_id
          IN  /\ Cardinality({r \in bot_users' : hit(r)}) = 1
              /\ escaped' = escaped
              /\ (\E r \in bot_users : hit(r)) =>
                    {r \in bot_users' : hit(r)} = {r \in bot_users : hit(r)}
      ]_vars

\* an add_bot_user at instant 2 for a user who joined at instant 1 and is banned
C21_Witness ==
    /\ ret.op = "add_bot_user"
    /\ clock = 2
    /\ \E r \in bot_users : /\ r.bot_token = ret.token
                            /\ r.user_id = ret.user_id
                            /\ r.joined_at = 1
                            /\ r.banned = 1

\* C22: toggle_bot_active(token) flips the active flag (1 to 0, 0 to 1) of the Bot
\* of that token, changes nothing else and returns true; when no Bot has the token
\* it returns false and changes nothing; toggled twice in a row, every Bot is
\* back at the active value it had.
C22_ToggleFlips ==
    /\ [](/\ \A b \in bots : b.active \in {0, 1}
          /\ \A t \in Tokens : ToggleActive(ToggleActive(bots, t), t) = bots)
    /\ [][ret'.op = "toggle_bot_active" =>
            IF \E b \in bots : b.token = ret'.token
            THEN /\ ret'.ok = TRUE
                 /\ {b \in bots' : b.token # ret'.token}
                      = {b \in bots : b.token # ret'.token}
                 /\ {[b EXCEPT !.active = 1 - b.active] :
                        b \in {x \in bots' : x.token = ret'.token}}
                      = {b \in bots : b.token = ret'.token}
            ELSE ret'.ok = FALSE /\ bots' = bots
         ]_vars

\* a toggle that switched a bot with one user back on, while the other bot is off
C22_Witness ==
    /\ ret.op = "toggle_bot_active"
    /\ ret.ok = TRUE
    /\ \E b \in bots : b.token = ret.token /\ b.active = 1 /\ b.users_count = 1
    /\ \E b \in bots : b.token # ret.token /\ b.active = 0

\* C23: delete_bot(token) leaves the rows of every other token in bots, bot_users,
\* fake_subs and remember as they are, and changes no row of any other table: the
\* adhkar_schedules, guard_data and guard_settings rows of the deleted token stay.
C23_DeleteFrame ==
    [][ret'.op = "delete_bot" =>
          /\ {b \in bots' : b.token # ret'.token} = {b \in bots : b.token # ret'.token}
          /\ {r \in bot_users' : r.bot_token # ret'.token}
               = {r \in bot_users : r.bot_token # ret'.token}
          /\ {r \in fake_subs' : r.bot_token # ret'.token}
               = {r \in fake_subs : r.bot_token # ret'.token}
          /\ {r \in remember' : r.bot_token # ret'.token}
               = {r \in remember : r.bot_token # ret'.token}
          /\ adhkar_schedules' = adhkar_schedules
          /\ guard_data' = guard_data
          /\ guard_settings' = guard_settings
          /\ <<members', developers', banned_makers'>>
               = <<members, developers, banned_makers>>
      ]_vars

\* a delete_bot after which the deleted token still has its adhkar_schedules,
\* guard_data and guard_settings rows and the other bot has all of its rows
C23_Witness ==
    /\ ret.op = "delete_bot"
    /\ \A b \in bots : b.token # ret.token
    /\ \E r \in adhkar_schedules : r.bot_token = ret.token
    /\ \E r \in guard_data : r.bot_token = ret.token /\ r.kick_count = 2
    /\ \E r \in guard_settings : r.bot_token = ret.token
    /\ \E b \in bots : b.token # ret.token
    /\ \E r \in bot_users : r.bot_token # ret.token
    /\ \E r \in fake_subs : r.bot_token # ret.token
    /\ \E r \in remember : r.bot_token # ret.token

\* C24: add_memory on (bot_token, user_id) deletes and alters no entry of another
\* partition: the entries of every other (bot_token, user_id) pair are the same
\* before and after the call.
C24_PruneOwnPartition ==
    [][ret'.op = "add_memory" =>
          {r \in remember' : ~(r.bot_token = ret'.token /\ r.user_id = ret'.user_id)}
            = {r \in remember : ~(r.bot_token = ret'.token /\ r.user_id = ret'.user_id)}
      ]_vars

\* an add_memory that pruned its partition of 21 entries to 20 while another
\* partition holds an entry
C24_Witness ==
    /\ ret.op = "add_memory"
    /\ Len(mem_log[<<ret.token, ret.user_id>>]) = 21
    /\ Cardinality({r \in remember : /\ r.bot_token = ret.token
                                     /\ r.user_id = ret.user_id}) = 20
    /\ \E r \in remember : ~(r.bot_token = ret.token /\ r.user_id = ret.user_id)
====
